---- MODULE Spec2Model ----
(***************************************************************************)
(* Model of the Solana vanity address generator (src/src/main.rs).         *)
(*                                                                         *)
(* A Rust String is modelled as a sequence (tuple) of one-character        *)
(* strings, so that validation, lowercasing, prefix/suffix tests and       *)
(* slicing are computed character by character as the code does.           *)
(* Option<T> is modelled as a sequence of length 0 (None) or 1 (Some).     *)
(***************************************************************************)
EXTENDS Integers, Sequences, FiniteSets, TLC

---------------------------------------------------------------------------
(* Bounds of the model *)

\* number of rayon workers, num_cpus::get() on the modelled machine
NumWorkers == 2
\* the run is cut once this many candidates have been generated in total
MaxCandidates == 3
\* longest command line explored by the configuration-phase specification
MaxArgs == 4
\* longest address and longest pattern the match engine is evaluated on
MaxAddrLen == 3
MaxPatLen == 2
\* BATCH_SIZE (main.rs:42, 100_000) and report_threshold (main.rs:349,
\* 10_000) scaled down; the batch stays a multiple of the threshold
BATCH_SIZE == 2
report_threshold == 2

None == << >>
Some(x) == << x >>
IsSome(o) == Len(o) = 1
Unwrap(o) == o[1]

---------------------------------------------------------------------------
(* Strings *)

UpperChars ==
  << "A","B","C","D","E","F","G","H","I","J","K","L","M",
     "N","O","P","Q","R","S","T","U","V","W","X","Y","Z" >>
LowerChars ==
  << "a","b","c","d","e","f","g","h","i","j","k","l","m",
     "n","o","p","q","r","s","t","u","v","w","x","y","z" >>

\* char::to_lowercase on the ASCII characters the program meets
to_lowercase_char(c) ==
  IF \E k \in 1..26 : UpperChars[k] = c
    THEN LowerChars[CHOOSE k \in 1..26 : UpperChars[k] = c]
    ELSE c

to_lowercase(s) == [k \in 1..Len(s) |-> to_lowercase_char(s[k])]

\* a prefix test that compares only the positions both strings have
starts_with_Mutant(s, p) ==
  \A k \in 1..(IF Len(p) <= Len(s) THEN Len(p) ELSE Len(s)) : s[k] = p[k]

starts_with(s, p) ==
  /\ Len(p) <= Len(s)
  /\ \A k \in 1..Len(p) : s[k] = p[k]

ends_with(s, p) ==
  /\ Len(p) <= Len(s)
  /\ \A k \in 1..Len(p) : s[Len(s) - Len(p) + k] = p[k]

\* a search that returns the highest index of an occurrence
find_Mutant(s, p) ==
  LET occ == { k \in 0..(Len(s) - Len(p)) :
                 \A n \in 1..Len(p) : s[k + n] = p[n] }
  IN  IF occ = {} THEN None
      ELSE Some(CHOOSE k \in occ : \A m \in occ : k >= m)

\* str::find: the lowest 0-based index of an occurrence, as an Option
find(s, p) ==
  LET occ == { k \in 0..(Len(s) - Len(p)) :
                 \A n \in 1..Len(p) : s[k + n] = p[n] }
  IN  IF occ = {} THEN None
      ELSE Some(CHOOSE k \in occ : \A m \in occ : k <= m)

\* &s[b..e] with 0-based, end-exclusive bounds; Rust panics outside them
SliceInBounds(s, b, e) == 0 <= b /\ b <= e /\ e <= Len(s)
Slice(s, b, e) == [k \in 1..(e - b) |-> s[b + k]]

\* the literal of main.rs:84
base58_alphabet ==
  << "1","2","3","4","5","6","7","8","9",
     "A","B","C","D","E","F","G","H","I","J","K","L","M",
     "N","P","Q","R","S","T","U","V","W","X","Y","Z",
     "a","b","c","d","e","f","g","h","i","j","k",
     "m","n","o","p","q","r","s","t","u","v","w","x","y","z" >>

alphabet_contains(c) == \E k \in 1..Len(base58_alphabet) : base58_alphabet[k] = c

validate_prefix(prefix) == \A k \in 1..Len(prefix) : alphabet_contains(prefix[k])

---------------------------------------------------------------------------
(* Pattern data and the match engine *)

StartOnly   == "StartOnly"
EndOnly     == "EndOnly"
StartOrEnd  == "StartOrEnd"
Anywhere    == "Anywhere"
StartAndEnd == "StartAndEnd"

PatternData_new(pattern, cs) ==
  [ pattern         |-> pattern,
    length          |-> Len(pattern),
    lower_pattern   |-> to_lowercase(pattern),
    compare_pattern |-> IF cs THEN pattern ELSE to_lowercase(pattern) ]

\* a match report is Some(<<position, actual_match>>) or None; Panic is the
\* outcome of a slice that leaves the address
Panic == << "panic", "panic" >>
IsPanic(r) == Len(r) = 2

\* a start report cut from the lowercased comparison form
StartReport_Mutant(address, pattern) ==
  IF SliceInBounds(address, 0, pattern.length)
    THEN Some(<< <<"start">>, Slice(to_lowercase(address), 0, pattern.length) >>)
    ELSE Panic

StartReport(address, pattern) ==
  IF SliceInBounds(address, 0, pattern.length)
    THEN Some(<< <<"start">>, Slice(address, 0, pattern.length) >>)
    ELSE Panic

EndReport(address, pattern) ==
  IF SliceInBounds(address, Len(address) - pattern.length, Len(address))
    THEN Some(<< <<"end">>,
                 Slice(address, Len(address) - pattern.length, Len(address)) >>)
    ELSE Panic

\* the single-pattern engine with StartOrEnd testing the suffix first
check_address_single_pattern_Mutant(address, pattern, position, cs) ==
  LET compare_address == IF cs THEN address ELSE to_lowercase(address)
      compare_pattern == pattern.compare_pattern
      index == find(compare_address, compare_pattern)
  IN  CASE position = StartOnly ->
             IF starts_with(compare_address, compare_pattern)
               THEN StartReport(address, pattern) ELSE None
        [] position = EndOnly ->
             IF ends_with(compare_address, compare_pattern)
               THEN EndReport(address, pattern) ELSE None
        [] position = StartOrEnd ->
             IF ends_with(compare_address, compare_pattern)
               THEN EndReport(address, pattern)
             ELSE IF starts_with(compare_address, compare_pattern)
               THEN StartReport(address, pattern)
             ELSE None
        [] position = Anywhere /\ IsSome(index) ->
             IF SliceInBounds(address, Unwrap(index), Unwrap(index) + pattern.length)
               THEN Some(<< <<"index", Unwrap(index)>>,
                            Slice(address, Unwrap(index),
                                  Unwrap(index) + pattern.length) >>)
               ELSE Panic
        [] OTHER -> None

check_address_single_pattern(address, pattern, position, cs) ==
  LET compare_address == IF cs THEN address ELSE to_lowercase(address)
      compare_pattern == pattern.compare_pattern
  IN  CASE position = StartOnly ->
             IF starts_with(compare_address, compare_pattern)
               THEN StartReport(address, pattern) ELSE None
        [] position = EndOnly ->
             IF ends_with(compare_address, compare_pattern)
               THEN EndReport(address, pattern) ELSE None
        [] position = StartOrEnd ->
             IF starts_with(compare_address, compare_pattern)
               THEN StartReport(address, pattern)
             ELSE IF ends_with(compare_address, compare_pattern)
               THEN EndReport(address, pattern)
             ELSE None
        [] position = Anywhere ->
             LET index == find(compare_address, compare_pattern)
             IN  IF IsSome(index)
                   THEN IF SliceInBounds(address, Unwrap(index),
                                         Unwrap(index) + pattern.length)
                          THEN Some(<< <<"index", Unwrap(index)>>,
                                       Slice(address, Unwrap(index),
                                             Unwrap(index) + pattern.length) >>)
                          ELSE Panic
                   ELSE None
        [] OTHER -> None

check_address_with_config(address, config) ==
  LET compare_address ==
        IF config.case_sensitive THEN address ELSE to_lowercase(address)
  IN  IF config.match_position = StartAndEnd
        THEN IF IsSome(config.start_pattern) /\ IsSome(config.end_pattern)
               THEN LET sp == Unwrap(config.start_pattern)
                        ep == Unwrap(config.end_pattern)
                        start_matches == starts_with(compare_address, sp.compare_pattern)
                        end_matches   == ends_with(compare_address, ep.compare_pattern)
                    IN  IF start_matches /\ end_matches
                          THEN IF /\ SliceInBounds(address, 0, sp.length)
                                  /\ SliceInBounds(address, Len(address) - ep.length,
                                                   Len(address))
                                 THEN LET start_match == Slice(address, 0, sp.length)
                                          end_match == Slice(address,
                                                             Len(address) - ep.length,
                                                             Len(address))
                                      IN  Some(<< <<"start", start_match, "and end", end_match>>,
                                                  <<start_match, "...", end_match>> >>)
                                 ELSE Panic
                          ELSE None
               ELSE None
        ELSE LET pattern == IF IsSome(config.start_pattern)
                              THEN config.start_pattern ELSE config.end_pattern
             IN  IF IsSome(pattern)
                   THEN check_address_single_pattern(address, Unwrap(pattern),
                                                     config.match_position,
                                                     config.case_sensitive)
                   ELSE None

---------------------------------------------------------------------------
(* Command line *)

ARG_START    == << "-","-","s","t","a","r","t" >>
ARG_END      == << "-","-","e","n","d" >>
ARG_POSITION == << "-","-","p","o","s","i","t","i","o","n" >>
ARG_CASE     == << "-","-","c","a","s","e","-","s","e","n","s","i","t","i","v","e" >>

STR_start        == << "s","t","a","r","t" >>
STR_end          == << "e","n","d" >>
STR_startorend   == << "s","t","a","r","t","o","r","e","n","d" >>
STR_start_or_end == << "s","t","a","r","t","-","o","r","-","e","n","d" >>
STR_anywhere     == << "a","n","y","w","h","e","r","e" >>
STR_true         == << "t","r","u","e" >>
STR_1            == << "1" >>
STR_yes          == << "y","e","s" >>
STR_false        == << "f","a","l","s","e" >>
STR_0            == << "0" >>
STR_no           == << "n","o" >>

POSSIBLE_PATTERNS == << << "S","e","e","k" >> >>

\* the arguments the configuration-phase specification combines
ArgPool ==
  { ARG_START, ARG_END, ARG_POSITION, ARG_CASE,
    STR_start, << "E","N","D" >>, STR_anywhere, STR_false, STR_0,
    << "I" >>, << "A","b" >> }

ArgLists == UNION { [1..n -> ArgPool] : n \in 0..MaxArgs }

\* the command lines the search itself is run with
CmdLines ==
  { << ARG_CASE, STR_false, << "a","b" >>, << "B" >> >> }

\* the addresses Keypair::new() may produce in the model
AddrPool ==
  { << "B","a","b" >>, << "x","y","z" >> }

---------------------------------------------------------------------------
(* State *)

VARIABLES
  args,                 \* std::env::args() without the program name
  i,                    \* index of the next argument (1-based here)
  start_pattern_str, end_pattern_str, match_position, case_sensitive,
  pattern_args,
  search_configs,
  mpc,                  \* position of the main thread
  exit_code,            \* None while the process runs, Some(status) after
  attempts, found, found_keypair,     \* the shared search state
  mutex,                \* holder of found_keypair's lock: 0 (free) or a worker
  rpc,                  \* position of the progress reporter thread
  last_report_attempts,
  wpc,                  \* position of each worker
  batch_j,              \* each worker's index in 0..BATCH_SIZE
  local_attempts,
  pending,              \* each worker's matching candidate, as an Option
  result, total_attempts,             \* the main thread's final reads
  generated,            \* ghost: Keypair::new() calls so far, all workers
  result_writes,        \* ghost: assignments to found_keypair so far
  lines_after_found,    \* ghost: status lines rendered with found already true
  after_found,          \* ghost: candidates a running worker has generated with
                        \* found already true
  eval_address, eval_config,          \* one evaluation of the match engine:
  eval_report, eval_pc                \* its arguments, its result, its position

cfgvars    == << args, i, start_pattern_str, end_pattern_str, match_position,
                 case_sensitive, pattern_args, search_configs >>
sharedvars == << attempts, found, found_keypair, mutex >>
repvars    == << rpc, last_report_attempts, lines_after_found >>
workvars   == << wpc, batch_j, local_attempts, pending, generated, result_writes,
                 after_found >>
mainvars   == << mpc, exit_code, result, total_attempts >>
evalvars   == << eval_address, eval_config, eval_report, eval_pc >>
vars       == << cfgvars, sharedvars, repvars, workvars, mainvars, evalvars >>

Workers == 1..NumWorkers

\* the program before main's first statement
InitProgram(a) ==
  /\ args = a
  /\ i = 1
  /\ start_pattern_str = None
  /\ end_pattern_str = None
  /\ match_position = StartOrEnd
  /\ case_sensitive = TRUE
  /\ pattern_args = << >>
  /\ search_configs = << >>
  /\ mpc = "parse"
  /\ exit_code = None
  /\ attempts = 0
  /\ found = FALSE
  /\ found_keypair = None
  /\ mutex = 0
  /\ rpc = "unspawned"
  /\ last_report_attempts = 0
  /\ wpc = [w \in Workers |-> "unspawned"]
  /\ batch_j = [w \in Workers |-> 0]
  /\ local_attempts = [w \in Workers |-> 0]
  /\ pending = [w \in Workers |-> None]
  /\ result = None
  /\ total_attempts = None
  /\ generated = 0
  /\ result_writes = 0
  /\ lines_after_found = 0
  /\ after_found = [w \in Workers |-> 0]

InitWith(a) ==
  /\ InitProgram(a)
  /\ eval_address = << >>
  /\ eval_config = None
  /\ eval_report = None
  /\ eval_pc = "idle"

Init == \E a \in CmdLines : InitWith(a)

InitCli == \E a \in ArgLists : InitWith(a)

Running == exit_code = None

---------------------------------------------------------------------------
(* The match engine on its own: one call of check_address_with_config, as the
   worker makes it at main.rs:364, on every short address and configuration *)

\* an uppercase letter and its lowercase form: enough for patterns that match,
\* that do not, and that match only when case is ignored
EvalChars == { "A", "a" }

StringsUpTo(n) == UNION { [1..k -> EvalChars] : k \in 0..n }

OptPatterns(cs) ==
  { None } \cup { Some(PatternData_new(p, cs)) : p \in StringsUpTo(MaxPatLen) }

EvalConfigs ==
  UNION { [ start_pattern  : OptPatterns(cs),
            end_pattern    : OptPatterns(cs),
            match_position : { StartOnly, EndOnly, StartOrEnd, Anywhere, StartAndEnd },
            case_sensitive : { cs } ] : cs \in BOOLEAN }

InitMatch ==
  /\ InitProgram(<< >>)
  /\ eval_address \in StringsUpTo(MaxAddrLen)
  /\ eval_config \in EvalConfigs
  /\ eval_report = None
  /\ eval_pc = "ready"

Evaluate ==
  /\ eval_pc = "ready"
  /\ eval_report' = check_address_with_config(eval_address, eval_config)
  /\ eval_pc' = "done"
  /\ UNCHANGED << eval_address, eval_config, cfgvars, sharedvars, repvars,
                  workvars, mainvars >>

SpecMatch == InitMatch /\ [][Evaluate]_vars

---------------------------------------------------------------------------
(* Main thread: argument parsing, main.rs:171-211 *)

\* std::process::exit(status)
ProcessExit(status) ==
  /\ mpc' = "exited"
  /\ exit_code' = Some(status)

\* the value of --position, or None when it is not one of the accepted words
ParsePosition(v) ==
  LET l == to_lowercase(v)
  IN  IF l = STR_start THEN Some(StartOnly)
      ELSE IF l = STR_end THEN Some(EndOnly)
      ELSE IF l = STR_startorend \/ l = STR_start_or_end THEN Some(StartOrEnd)
      ELSE IF l = STR_anywhere THEN Some(Anywhere)
      ELSE None

\* the value of --case-sensitive, or None
ParseCaseSensitive(v) ==
  LET l == to_lowercase(v)
  IN  IF l = STR_true \/ l = STR_1 \/ l = STR_yes THEN Some(TRUE)
      ELSE IF l = STR_false \/ l = STR_0 \/ l = STR_no THEN Some(FALSE)
      ELSE None

\* one iteration of the while loop over args
ParseArg ==
  /\ Running
  /\ mpc = "parse"
  /\ i <= Len(args)
  /\ LET hasValue == i + 1 <= Len(args)
     IN  IF args[i] = ARG_START /\ hasValue THEN
           /\ start_pattern_str' = Some(args[i + 1])
           /\ i' = i + 2
           /\ UNCHANGED << end_pattern_str, match_position, case_sensitive,
                           pattern_args, mpc, exit_code >>
         ELSE IF args[i] = ARG_END /\ hasValue THEN
           /\ end_pattern_str' = Some(args[i + 1])
           /\ i' = i + 2
           /\ UNCHANGED << start_pattern_str, match_position, case_sensitive,
                           pattern_args, mpc, exit_code >>
         ELSE IF args[i] = ARG_POSITION /\ hasValue THEN
           LET p == ParsePosition(args[i + 1])
           IN  IF IsSome(p)
                 THEN /\ match_position' = Unwrap(p)
                      /\ i' = i + 2
                      /\ UNCHANGED << start_pattern_str, end_pattern_str,
                                      case_sensitive, pattern_args, mpc, exit_code >>
                 ELSE /\ ProcessExit(1)
                      /\ UNCHANGED << start_pattern_str, end_pattern_str,
                                      match_position, case_sensitive,
                                      pattern_args, i >>
         ELSE IF args[i] = ARG_CASE /\ hasValue THEN
           LET c == ParseCaseSensitive(args[i + 1])
           IN  IF IsSome(c)
                 THEN /\ case_sensitive' = Unwrap(c)
                      /\ i' = i + 2
                      /\ UNCHANGED << start_pattern_str, end_pattern_str,
                                      match_position, pattern_args, mpc, exit_code >>
                 ELSE /\ ProcessExit(1)
                      /\ UNCHANGED << start_pattern_str, end_pattern_str,
                                      match_position, case_sensitive,
                                      pattern_args, i >>
         ELSE
           /\ pattern_args' = Append(pattern_args, args[i])
           /\ i' = i + 1
           /\ UNCHANGED << start_pattern_str, end_pattern_str, match_position,
                           case_sensitive, mpc, exit_code >>
  /\ UNCHANGED << evalvars, args, search_configs, sharedvars, repvars, workvars,
                  result, total_attempts >>

---------------------------------------------------------------------------
(* Main thread: search configuration, main.rs:214-277 *)

UsingStartEnd == IsSome(start_pattern_str) \/ IsSome(end_pattern_str)

possible_patterns ==
  IF pattern_args # << >> THEN pattern_args ELSE POSSIBLE_PATTERNS

\* some pattern the code validates is refused by validate_prefix
ValidationFails ==
  IF UsingStartEnd
    THEN \/ IsSome(start_pattern_str) /\ ~validate_prefix(Unwrap(start_pattern_str))
         \/ IsSome(end_pattern_str) /\ ~validate_prefix(Unwrap(end_pattern_str))
    ELSE \E k \in 1..Len(possible_patterns) : ~validate_prefix(possible_patterns[k])

OptPatternData(o) ==
  IF IsSome(o) THEN Some(PatternData_new(Unwrap(o), case_sensitive)) ELSE None

\* StartAndEnd as soon as one of the two patterns is given
final_match_position_Mutant ==
  IF IsSome(start_pattern_str) \/ IsSome(end_pattern_str) THEN StartAndEnd
  ELSE IF IsSome(start_pattern_str) THEN StartOnly
  ELSE EndOnly

final_match_position ==
  IF IsSome(start_pattern_str) /\ IsSome(end_pattern_str) THEN StartAndEnd
  ELSE IF IsSome(start_pattern_str) THEN StartOnly
  ELSE EndOnly

\* positional patterns built with the default position, whatever --position
BuiltConfigs_Mutant ==
  IF UsingStartEnd
    THEN << [ start_pattern  |-> OptPatternData(start_pattern_str),
              end_pattern    |-> OptPatternData(end_pattern_str),
              match_position |-> final_match_position,
              case_sensitive |-> case_sensitive ] >>
    ELSE [ k \in 1..Len(possible_patterns) |->
             [ start_pattern  |-> Some(PatternData_new(possible_patterns[k],
                                                       case_sensitive)),
               end_pattern    |-> None,
               match_position |-> StartOrEnd,
               case_sensitive |-> case_sensitive ] ]

BuiltConfigs ==
  IF UsingStartEnd
    THEN << [ start_pattern  |-> OptPatternData(start_pattern_str),
              end_pattern    |-> OptPatternData(end_pattern_str),
              match_position |-> final_match_position,
              case_sensitive |-> case_sensitive ] >>
    ELSE [ k \in 1..Len(possible_patterns) |->
             [ start_pattern  |-> Some(PatternData_new(possible_patterns[k],
                                                       case_sensitive)),
               end_pattern    |-> None,
               match_position |-> match_position,
               case_sensitive |-> case_sensitive ] ]

BuildConfigs ==
  /\ Running
  /\ mpc = "parse"
  /\ i > Len(args)
  /\ IF ValidationFails
       THEN /\ ProcessExit(1)
            /\ UNCHANGED search_configs
       ELSE /\ search_configs' = BuiltConfigs
            /\ mpc' = "spawn_reporter"
            /\ UNCHANGED exit_code
  /\ UNCHANGED << evalvars, args, i, start_pattern_str, end_pattern_str,
                  match_position, case_sensitive, pattern_args, sharedvars,
                  repvars, workvars, result, total_attempts >>

---------------------------------------------------------------------------
(* Main thread: shared state and threads, main.rs:279-347 *)

\* creates attempts, found, found_keypair and spawns the reporter thread
SpawnReporter ==
  /\ Running
  /\ mpc = "spawn_reporter"
  /\ attempts' = 0
  /\ found' = FALSE
  /\ found_keypair' = None
  /\ rpc' = "check"
  /\ last_report_attempts' = 0
  /\ mpc' = "pool"
  /\ UNCHANGED << evalvars, cfgvars, mutex, lines_after_found, workvars,
                  exit_code, result, total_attempts >>

\* (0..num_cpus::get()).into_par_iter().for_each(...)
StartPool ==
  /\ Running
  /\ mpc = "pool"
  /\ wpc' = [w \in Workers |-> "while"]
  /\ local_attempts' = [w \in Workers |-> 0]
  /\ mpc' = "join"
  /\ UNCHANGED << evalvars, cfgvars, sharedvars, repvars, batch_j, pending, generated,
                  result_writes, after_found, exit_code, result, total_attempts >>

---------------------------------------------------------------------------
(* Progress reporter, main.rs:318-344 *)

\* mutant: the reporter loop never looks at found
ReporterContinues_Mutant == TRUE

\* while !found_clone.load(Relaxed)
ReporterContinues == ~found

ReporterCheck ==
  /\ Running
  /\ rpc = "check"
  /\ rpc' = IF ReporterContinues THEN "tick" ELSE "exited"
  /\ UNCHANGED << evalvars, cfgvars, sharedvars, last_report_attempts, lines_after_found,
                  workvars, mainvars >>

\* mutant: the reporter takes the counter with swap(0) to compute its rate
ReporterShared_Mutant ==
  /\ attempts' = 0
  /\ UNCHANGED << found, found_keypair, mutex >>

\* what one tick of the reporter leaves in the shared state
ReporterShared == UNCHANGED sharedvars

\* sleep, sample attempts, print the status line, remember the sample
ReporterTick ==
  /\ Running
  /\ rpc = "tick"
  /\ last_report_attempts' = attempts
  /\ lines_after_found' =
       IF found /\ lines_after_found < 2 THEN lines_after_found + 1
       ELSE lines_after_found
  /\ rpc' = "check"
  /\ ReporterShared
  /\ UNCHANGED << evalvars, cfgvars, workvars, mainvars >>

Reporter == ReporterCheck \/ ReporterTick

---------------------------------------------------------------------------
(* Workers, main.rs:347-409 *)

\* mutant: the counter is stored, not added to
fetch_add_Mutant(n) == attempts' = n

\* attempts.fetch_add(n, Relaxed); the u64 counter never comes near wrapping,
\* since the run is cut at MaxCandidates candidates
fetch_add(n) == attempts' = attempts + n

\* workers that have passed the found check and are about to call Keypair::new()
Committed == Cardinality({ w \in Workers : wpc[w] = "gen" })

\* the closure returns and its locals go out of scope
Return(w) ==
  /\ wpc' = [wpc EXCEPT ![w] = "returned"]
  /\ batch_j' = [batch_j EXCEPT ![w] = 0]
  /\ local_attempts' = [local_attempts EXCEPT ![w] = 0]
  /\ pending' = [pending EXCEPT ![w] = None]
  /\ after_found' = [after_found EXCEPT ![w] = 0]

\* mutant: the outer loop never looks at found
WhileContinues_Mutant == TRUE

\* while !found.load(Relaxed)
WhileContinues == ~found

WorkerWhile(w) ==
  /\ Running
  /\ wpc[w] = "while"
  /\ IF ~WhileContinues
       THEN Return(w)
       ELSE /\ wpc' = [wpc EXCEPT ![w] = "for"]
            /\ batch_j' = [batch_j EXCEPT ![w] = 0]
            /\ UNCHANGED << local_attempts, pending, after_found >>
  /\ UNCHANGED << evalvars, cfgvars, sharedvars, repvars, generated, result_writes, mainvars >>

\* for _ in 0..BATCH_SIZE { if found.load(Relaxed) { break; } ...
WorkerFor(w) ==
  /\ Running
  /\ wpc[w] = "for"
  /\ IF batch_j[w] >= BATCH_SIZE \/ found
       THEN wpc' = [wpc EXCEPT ![w] = "remaining"]
       ELSE /\ generated + Committed < MaxCandidates
            /\ wpc' = [wpc EXCEPT ![w] = "gen"]
  /\ UNCHANGED << evalvars, cfgvars, sharedvars, repvars, batch_j, local_attempts, pending,
                  generated, result_writes, after_found, mainvars >>

\* the index of the first configuration, in order, that reports for the address
\* (0 if none does)
\* the loop keeps going after a report, so the last reporting config is used
FirstReporting_Mutant(address) ==
  LET hits == { k \in 1..Len(search_configs) :
                  check_address_with_config(address, search_configs[k]) # None }
  IN  IF hits = {} THEN 0 ELSE CHOOSE k \in hits : \A m \in hits : k >= m

FirstReporting(address) ==
  LET hits == { k \in 1..Len(search_configs) :
                  check_address_with_config(address, search_configs[k]) # None }
  IN  IF hits = {} THEN 0 ELSE CHOOSE k \in hits : \A m \in hits : k <= m

pattern_desc(config) ==
  IF IsSome(config.start_pattern) /\ IsSome(config.end_pattern)
    THEN << "start", Unwrap(config.start_pattern).pattern,
            "+ end", Unwrap(config.end_pattern).pattern >>
  ELSE IF IsSome(config.start_pattern) THEN Unwrap(config.start_pattern).pattern
  ELSE IF IsSome(config.end_pattern) THEN Unwrap(config.end_pattern).pattern
  ELSE << "unknown" >>

\* a failed derivation leaves the mnemonic field empty
mnemonic_phrase_Mutant(pubkey, ok) ==
  IF ok THEN << "phrase of", pubkey >> ELSE << >>

\* Mnemonic::from_entropy(..) is an external call that may fail
mnemonic_phrase(pubkey, ok) ==
  IF ok THEN << "phrase of", pubkey >> ELSE << "Unable to generate mnemonic" >>

\* Keypair::new(), local_attempts += 1, and the loop over search_configs up to
\* its first report; the for loop is left for good on a report, so its index
\* is dropped there
WorkerGenerate(w) ==
  /\ Running
  /\ wpc[w] = "gen"
  /\ \E pubkey \in AddrPool : \E mnemonic_ok \in BOOLEAN :
       LET k == FirstReporting(pubkey)
       IN  /\ generated' = generated + 1
           /\ after_found' = [after_found EXCEPT ![w] = IF found THEN @ + 1 ELSE @]
           /\ local_attempts' = [local_attempts EXCEPT ![w] = @ + 1]
           /\ IF k = 0
                THEN /\ mnemonic_ok
                     /\ wpc' = [wpc EXCEPT ![w] = "threshold"]
                     /\ UNCHANGED << batch_j, pending >>
                ELSE LET report == check_address_with_config(pubkey, search_configs[k])
                     IN  IF IsPanic(report)
                           THEN /\ mnemonic_ok
                                /\ wpc' = [wpc EXCEPT ![w] = "panicked"]
                                /\ UNCHANGED << batch_j, pending >>
                           ELSE /\ wpc' = [wpc EXCEPT ![w] = "store"]
                                /\ batch_j' = [batch_j EXCEPT ![w] = 0]
                                /\ pending' = [pending EXCEPT ![w] = Some(
                                     [ pattern_desc    |-> pattern_desc(search_configs[k]),
                                       position        |-> Unwrap(report)[1],
                                       actual_match    |-> Unwrap(report)[2],
                                       pubkey          |-> pubkey,
                                       private_key     |-> << "bs58 of", pubkey >>,
                                       mnemonic_phrase |-> mnemonic_phrase(pubkey, mnemonic_ok) ])]
  /\ UNCHANGED << evalvars, cfgvars, sharedvars, repvars, result_writes, mainvars >>

\* mutant: the flag is toggled (fetch_xor) instead of set
StoreFound_Mutant == found' = ~found

\* found.store(true, Relaxed)
StoreFound == found' = TRUE

WorkerStore(w) ==
  /\ Running
  /\ wpc[w] = "store"
  /\ StoreFound
  /\ wpc' = [wpc EXCEPT ![w] = "lock"]
  /\ UNCHANGED << evalvars, cfgvars, attempts, found_keypair, mutex, repvars, batch_j,
                  local_attempts, pending, generated, result_writes, after_found,
                  mainvars >>

\* found_keypair.lock()
WorkerLock(w) ==
  /\ Running
  /\ wpc[w] = "lock"
  /\ mutex = 0
  /\ mutex' = w
  /\ wpc' = [wpc EXCEPT ![w] = "write"]
  /\ UNCHANGED << evalvars, cfgvars, attempts, found, found_keypair, repvars, batch_j,
                  local_attempts, pending, generated, result_writes, after_found,
                  mainvars >>

\* *guard = Some((..)); the guard is dropped at the end of the statement
WorkerWrite(w) ==
  /\ Running
  /\ wpc[w] = "write"
  /\ mutex = w
  /\ found_keypair' = pending[w]
  /\ result_writes' = result_writes + 1
  /\ mutex' = 0
  /\ wpc' = [wpc EXCEPT ![w] = "flush"]
  /\ UNCHANGED << evalvars, cfgvars, attempts, found, repvars, batch_j, local_attempts,
                  pending, generated, after_found, mainvars >>

\* mutant: the winning candidate is left out of the flush
MatchFlushAmount_Mutant(w) == local_attempts[w] - 1

\* attempts.fetch_add(local_attempts, Relaxed); return
MatchFlushAmount(w) == local_attempts[w]

WorkerFlush(w) ==
  /\ Running
  /\ wpc[w] = "flush"
  /\ fetch_add(MatchFlushAmount(w))
  /\ Return(w)
  /\ UNCHANGED << evalvars, cfgvars, found, found_keypair, mutex, repvars, generated,
                  result_writes, mainvars >>

\* the periodic flush adds one more than the tally it clears
ThresholdFlushAmount_Mutant == report_threshold + 1

\* if local_attempts % report_threshold == 0 { fetch_add(report_threshold); .. }
ThresholdFlushAmount == report_threshold

WorkerThreshold(w) ==
  /\ Running
  /\ wpc[w] = "threshold"
  /\ IF local_attempts[w] % report_threshold = 0
       THEN /\ fetch_add(ThresholdFlushAmount)
            /\ local_attempts' = [local_attempts EXCEPT ![w] = 0]
       ELSE UNCHANGED << attempts, local_attempts >>
  /\ batch_j' = [batch_j EXCEPT ![w] = @ + 1]
  /\ wpc' = [wpc EXCEPT ![w] = "for"]
  /\ UNCHANGED << evalvars, cfgvars, found, found_keypair, mutex, repvars, pending,
                  generated, result_writes, after_found, mainvars >>

\* if local_attempts > 0 { fetch_add(local_attempts); local_attempts = 0; }
WorkerRemaining(w) ==
  /\ Running
  /\ wpc[w] = "remaining"
  /\ IF local_attempts[w] > 0
       THEN /\ fetch_add(local_attempts[w])
            /\ local_attempts' = [local_attempts EXCEPT ![w] = 0]
       ELSE UNCHANGED << attempts, local_attempts >>
  /\ wpc' = [wpc EXCEPT ![w] = "while"]
  /\ UNCHANGED << evalvars, cfgvars, found, found_keypair, mutex, repvars, batch_j, pending,
                  generated, result_writes, after_found, mainvars >>

Worker(w) ==
  \/ WorkerWhile(w)
  \/ WorkerFor(w)
  \/ WorkerGenerate(w)
  \/ WorkerStore(w)
  \/ WorkerLock(w)
  \/ WorkerWrite(w)
  \/ WorkerFlush(w)
  \/ WorkerThreshold(w)
  \/ WorkerRemaining(w)

---------------------------------------------------------------------------
(* Main thread: join and final report, main.rs:409-427 *)

\* mutant: for_each returns as soon as one worker has ended
PoolJoined_Mutant == \E w \in Workers : wpc[w] \in { "returned", "panicked" }

\* for_each returns when every worker has ended
PoolJoined == \A w \in Workers : wpc[w] \in { "returned", "panicked" }

\* a panic of a worker is resumed on the main thread
JoinPool ==
  /\ Running
  /\ mpc = "join"
  /\ PoolJoined
  /\ IF \E w \in Workers : wpc[w] = "panicked"
       THEN ProcessExit(101)
       ELSE mpc' = "read" /\ UNCHANGED exit_code
  /\ UNCHANGED << evalvars, cfgvars, sharedvars, repvars, workvars, result, total_attempts >>

\* let result = found_keypair.lock().clone()
ReadResult ==
  /\ Running
  /\ mpc = "read"
  /\ mutex = 0
  /\ result' = found_keypair
  /\ mpc' = "report"
  /\ UNCHANGED << evalvars, cfgvars, sharedvars, repvars, workvars, exit_code, total_attempts >>

\* the final report; returning from main ends the process and with it the
\* detached reporter thread
Report ==
  /\ Running
  /\ mpc = "report"
  /\ total_attempts' = IF IsSome(result) THEN Some(attempts) ELSE None
  /\ mpc' = "done"
  /\ exit_code' = Some(0)
  /\ rpc' = IF rpc = "exited" THEN "exited" ELSE "killed"
  /\ UNCHANGED << evalvars, cfgvars, sharedvars, last_report_attempts, lines_after_found,
                  workvars, result >>

---------------------------------------------------------------------------
(* Specifications *)

Main == ParseArg \/ BuildConfigs \/ SpawnReporter \/ StartPool
          \/ JoinPool \/ ReadResult \/ Report

Next == Main \/ Reporter \/ \E w \in Workers : Worker(w)

Spec == Init /\ [][Next]_vars

\* the configuration phase alone, over every short command line
NextCli == ParseArg \/ BuildConfigs \/ SpawnReporter \/ StartPool

SpecCli == InitCli /\ [][NextCli]_vars

\* every thread the operating system schedules keeps taking steps
FairSpec ==
  /\ Init /\ [][Next]_vars
  /\ WF_vars(Main)
  /\ WF_vars(Reporter)
  /\ \A w \in Workers : WF_vars(Worker(w))

---------------------------------------------------------------------------
(* Properties *)

AfterJoin == mpc \in { "read", "report", "done" }

\* C1: the result slot is written at most once per run. The code stores
\* found unconditionally and then writes the slot, so two workers whose
\* candidates both match before either has stored found both write it.
C1_ResultWrittenAtMostOnce == result_writes <= 1

\* C2: the attempts counter the driver reads after the pool has joined equals
\* the number of candidates all workers generated.
C2_ExactFinalCount ==
  /\ AfterJoin => attempts = generated
  /\ IsSome(total_attempts) => Unwrap(total_attempts) = generated

\* a finished run whose count includes a candidate generated by another worker
\* after the match, over more than one batch
C2_Witness ==
  /\ mpc = "done"
  /\ total_attempts = Some(MaxCandidates)
  /\ generated = MaxCandidates

\* C3: once the pool has returned, found is true and the result slot is
\* populated, so the driver's read of it is never empty.
C3_ResultPopulatedAfterJoin ==
  /\ AfterJoin => found /\ IsSome(found_keypair)
  /\ mpc \in { "report", "done" } => IsSome(result)

C3_Witness == mpc = "done" /\ IsSome(result) /\ result = found_keypair

\* C4: once found is true every worker returns and the pool returns, and no
\* worker generates more than BATCH_SIZE further candidates after found
\* became true.
C4_CooperativeStop ==
  /\ [](\A w \in Workers : after_found[w] <= BATCH_SIZE)
  /\ (found ~> (PoolJoined /\ AfterJoin))

\* a worker has generated a candidate although found was already true
C4_Witness ==
  \E w \in Workers : after_found[w] = 1 /\ wpc[w] = "threshold" /\ found

\* C5: found starts false, is only ever changed from false to true, stays
\* true, and becomes true only by a worker holding a candidate that some
\* search configuration reports.
C5_FoundWriteOnce ==
  /\ ~found
  /\ [][ /\ found => found'
         /\ (~found /\ found') =>
              \E w \in Workers :
                /\ wpc[w] = "store"
                /\ IsSome(pending[w])
                /\ \E k \in 1..Len(search_configs) :
                     IsSome(check_address_with_config(Unwrap(pending[w]).pubkey,
                                                      search_configs[k])) ]_vars

\* found has been stored twice: by one worker, then by a second one
C5_Witness ==
  /\ found
  /\ \E w \in Workers : wpc[w] = "lock"
  /\ \E w \in Workers : wpc[w] \in { "flush", "returned" }

\* C6: attempts never decreases, and neither does the value the reporter
\* sampled last, so the reporter's delta is never negative.
C6_AttemptsMonotonic ==
  [][ /\ attempts' >= attempts
      /\ last_report_attempts' >= last_report_attempts
      /\ last_report_attempts' <= attempts' ]_vars

\* the reporter has sampled a positive count and the counter has grown since
C6_Witness == 0 < last_report_attempts /\ last_report_attempts < attempts

\* C7: after found becomes true the reporter renders at most one more status
\* line, and it ends.
C7_ReporterTerminates ==
  /\ [](lines_after_found <= 1)
  /\ (found ~> rpc \in { "exited", "killed" })

\* the reporter rendered its one stale line and then left its loop
C7_Witness == lines_after_found = 1 /\ rpc = "exited"

\* C8: no step of the reporter changes attempts, found or the result slot, and
\* none takes the result slot's lock.
C8_ReporterReadsOnly == [][Reporter => UNCHANGED sharedvars]_vars

\* the reporter has sampled while a worker held the lock
C8_Witness ==
  /\ last_report_attempts > 0
  /\ rpc = "check"
  /\ mutex # 0

\* the base-58 alphabet: the digits 1-9, the uppercase letters except I and O,
\* the lowercase letters except l
Base58Chars ==
  { "1","2","3","4","5","6","7","8","9",
    "A","B","C","D","E","F","G","H","J","K","L","M",
    "N","P","Q","R","S","T","U","V","W","X","Y","Z",
    "a","b","c","d","e","f","g","h","i","j","k",
    "m","n","o","p","q","r","s","t","u","v","w","x","y","z" }

IsBase58(p) == \A k \in 1..Len(p) : p[k] \in Base58Chars

\* the patterns BuildConfigs hands to validate_prefix
ValidatedPatterns ==
  IF UsingStartEnd
    THEN { start_pattern_str[k] : k \in 1..Len(start_pattern_str) }
           \cup { end_pattern_str[k] : k \in 1..Len(end_pattern_str) }
    ELSE { possible_patterns[k] : k \in 1..Len(possible_patterns) }

\* the argument loop has ended and the patterns have been validated
Validated == mpc # "parse" /\ i > Len(args)

\* C9: pattern validation accepts a pattern iff every character of it is in
\* the base-58 alphabet. The alphabet literal of validate_prefix holds 'I',
\* so the pattern "I" is accepted.
C9_AcceptsExactlyBase58 ==
  Validated => ((mpc # "exited") <=> \A p \in ValidatedPatterns : IsBase58(p))

\* the patterns a command line supplies: the values of --start and --end and
\* the positional arguments
RECURSIVE SuppliedPatterns(_, _)
SuppliedPatterns(a, k) ==
  IF k > Len(a) THEN {}
  ELSE IF a[k] \in { ARG_START, ARG_END } /\ k + 1 <= Len(a)
    THEN { a[k + 1] } \cup SuppliedPatterns(a, k + 2)
  ELSE IF a[k] \in { ARG_POSITION, ARG_CASE } /\ k + 1 <= Len(a)
    THEN SuppliedPatterns(a, k + 2)
  ELSE { a[k] } \cup SuppliedPatterns(a, k + 1)

\* the command line gives --position or --case-sensitive a value outside the
\* accepted words
RECURSIVE InvalidFlagValue(_, _)
InvalidFlagValue(a, k) ==
  IF k > Len(a) THEN FALSE
  ELSE IF a[k] \in { ARG_START, ARG_END } /\ k + 1 <= Len(a)
    THEN InvalidFlagValue(a, k + 2)
  ELSE IF a[k] = ARG_POSITION /\ k + 1 <= Len(a)
    THEN \/ to_lowercase(a[k + 1]) \notin
              { STR_start, STR_end, STR_startorend, STR_start_or_end, STR_anywhere }
         \/ InvalidFlagValue(a, k + 2)
  ELSE IF a[k] = ARG_CASE /\ k + 1 <= Len(a)
    THEN \/ to_lowercase(a[k + 1]) \notin
              { STR_true, STR_1, STR_yes, STR_false, STR_0, STR_no }
         \/ InvalidFlagValue(a, k + 2)
  ELSE InvalidFlagValue(a, k + 1)

ConfigError ==
  \/ InvalidFlagValue(args, 1)
  \/ \E p \in SuppliedPatterns(args, 1) : ~IsBase58(p)

NothingStarted == rpc = "unspawned" /\ \A w \in Workers : wpc[w] = "unspawned"

\* C10: with a configuration error (a pattern with a character outside the
\* base-58 alphabet, or an invalid --position / --case-sensitive value) the
\* process exits with status 1 and neither the reporter nor a worker is ever
\* started.
C10_ConfigErrorsStopRun ==
  ConfigError => /\ NothingStarted
                 /\ mpc # "parse" => exit_code = Some(1)

---------------------------------------------------------------------------
(* The match engine, checked on SpecMatch *)

Evaluated == eval_pc = "done"

\* the pattern a configuration of a single-pattern position is evaluated with
EvalPattern ==
  IF IsSome(eval_config.start_pattern)
    THEN eval_config.start_pattern ELSE eval_config.end_pattern

EvaluatedSingle(positions) ==
  /\ Evaluated
  /\ eval_config.match_position \in positions
  /\ IsSome(EvalPattern)

\* the forms of address and pattern that are compared: as given when case
\* matters, lowercased otherwise
CompareForm(s) == IF eval_config.case_sensitive THEN s ELSE to_lowercase(s)

\* the pattern occurs in the address at 0-based index k, in comparison form
OccursAt(p, k) ==
  /\ 0 <= k
  /\ k + Len(p) <= Len(eval_address)
  /\ SubSeq(CompareForm(eval_address), k + 1, k + Len(p)) = CompareForm(p)

PrefixHolds(p) == OccursAt(p, 0)
SuffixHolds(p) == OccursAt(p, Len(eval_address) - Len(p))

\* the characters of the original address at 0-based index k, as long as p
OriginalAt(p, k) == SubSeq(eval_address, k + 1, k + Len(p))

StartAndEndEvaluated ==
  /\ Evaluated
  /\ eval_config.match_position = StartAndEnd
  /\ IsSome(eval_config.start_pattern)
  /\ IsSome(eval_config.end_pattern)

\* C11: for every address and every StartAndEnd configuration whose start and
\* end patterns together are longer than the address, evaluation returns
\* no-match. check_address_with_config has no such test: start "AA", end "AA"
\* against "AAA" is reported as a match.
C11_StartAndEndBoundsRule ==
  ( /\ StartAndEndEvaluated
    /\ Len(Unwrap(eval_config.start_pattern).pattern)
         + Len(Unwrap(eval_config.end_pattern).pattern) > Len(eval_address) )
  => eval_report = None

\* C12: no evaluation slices outside the address: whatever the address, the
\* configuration and the position, evaluation ends in a match or in no-match,
\* never in the failure of a slice.
C12_NoSliceOutsideAddress == Evaluated => ~IsPanic(eval_report)

\* an evaluation of an address that is shorter than the pattern
C12_Witness ==
  /\ EvaluatedSingle({ StartOnly, EndOnly, StartOrEnd, Anywhere })
  /\ Len(eval_address) < Unwrap(EvalPattern).length

\* C13: under StartOnly or StartOrEnd, when the address starts with the
\* pattern (as given, or both lowercased when case is ignored) the report is a
\* start report whose matched substring is the first len(pattern) characters
\* of the original address.
C13_PrefixReportsOriginalCasing ==
  EvaluatedSingle({ StartOnly, StartOrEnd }) =>
    LET p == Unwrap(EvalPattern).pattern
    IN  PrefixHolds(p) =>
          eval_report = Some(<< <<"start">>, OriginalAt(p, 0) >>)

\* a case-insensitive prefix match whose original characters differ from the
\* lowercased ones
C13_Witness ==
  /\ EvaluatedSingle({ StartOnly, StartOrEnd })
  /\ PrefixHolds(Unwrap(EvalPattern).pattern)
  /\ Len(Unwrap(EvalPattern).pattern) > 0
  /\ OriginalAt(Unwrap(EvalPattern).pattern, 0) # Unwrap(EvalPattern).compare_pattern
  /\ IsSome(eval_report)

Occurrences(p) == { k \in 0..Len(eval_address) : OccursAt(p, k) }

\* C14: under Anywhere the evaluation reports iff the pattern occurs in the
\* address (in comparison form); the reported index is then the lowest index
\* of an occurrence and the matched substring is the original address from
\* that index, as long as the pattern.
C14_AnywhereFirstOccurrence ==
  EvaluatedSingle({ Anywhere }) =>
    LET p == Unwrap(EvalPattern).pattern
        occ == Occurrences(p)
    IN  IF occ = {} THEN eval_report = None
        ELSE \E k \in occ :
               /\ \A m \in occ : k <= m
               /\ eval_report = Some(<< <<"index", k>>, OriginalAt(p, k) >>)

\* a pattern that occurs twice, first at an index above 0
C14_Witness ==
  /\ EvaluatedSingle({ Anywhere })
  /\ Cardinality(Occurrences(Unwrap(EvalPattern).pattern)) >= 2
  /\ 0 \notin Occurrences(Unwrap(EvalPattern).pattern)
  /\ IsSome(eval_report)

\* C19: StartOrEnd tests the prefix first: a start report with the prefix
\* substring whenever the prefix test succeeds (also when the suffix test would
\* succeed too), an end report with the suffix substring only when the prefix
\* test fails and the suffix test succeeds, and no match otherwise.
C19_StartOrEndPrefixFirst ==
  EvaluatedSingle({ StartOrEnd }) =>
    LET p == Unwrap(EvalPattern).pattern
    IN  IF PrefixHolds(p)
          THEN eval_report = Some(<< <<"start">>, OriginalAt(p, 0) >>)
        ELSE IF SuffixHolds(p)
          THEN eval_report =
                 Some(<< <<"end">>, OriginalAt(p, Len(eval_address) - Len(p)) >>)
        ELSE eval_report = None

\* an address that both starts and ends with the pattern, with different
\* original characters at the two ends
C19_Witness ==
  /\ EvaluatedSingle({ StartOrEnd })
  /\ PrefixHolds(Unwrap(EvalPattern).pattern)
  /\ SuffixHolds(Unwrap(EvalPattern).pattern)
  /\ OriginalAt(Unwrap(EvalPattern).pattern, 0)
       # OriginalAt(Unwrap(EvalPattern).pattern,
                    Len(eval_address) - Len(Unwrap(EvalPattern).pattern))
  /\ eval_report = Some(<< <<"start">>, OriginalAt(Unwrap(EvalPattern).pattern, 0) >>)

---------------------------------------------------------------------------
(* The configurations the driver builds, checked on SpecCli *)

ConfigsBuilt == Len(search_configs) > 0

\* C15: every SearchConfig the driver builds satisfies the data-model
\* invariant: with position StartAndEnd it has both a start and an end pattern,
\* with any other position it has at least one of the two.
C15_ConfigInvariant ==
  \A k \in 1..Len(search_configs) :
    LET c == search_configs[k]
    IN  IF c.match_position = StartAndEnd
          THEN IsSome(c.start_pattern) /\ IsSome(c.end_pattern)
          ELSE IsSome(c.start_pattern) \/ IsSome(c.end_pattern)

\* a StartAndEnd configuration has been built from --start and --end
C15_Witness ==
  /\ ConfigsBuilt
  /\ search_configs[1].match_position = StartAndEnd
  /\ IsSome(start_pattern_str) /\ IsSome(end_pattern_str)

\* C16 as stated: whenever --start and --end are not both given, the built
\* configuration's position is the one --position selected (default
\* StartOrEnd); with both it is StartAndEnd. The code gives StartOnly or
\* EndOnly as soon as one of the two is given.
C16_PositionGovernsUnlessBoth ==
  ConfigsBuilt =>
    \A k \in 1..Len(search_configs) :
      search_configs[k].match_position =
        IF IsSome(start_pattern_str) /\ IsSome(end_pattern_str)
          THEN StartAndEnd ELSE match_position

\* C16, amended: --position governs only when neither --start nor --end is
\* given; with --start alone the position is StartOnly, with --end alone
\* EndOnly, whatever --position says, and with both it is StartAndEnd.
C16_PositionGovernsPositionals ==
  ConfigsBuilt =>
    \A k \in 1..Len(search_configs) :
      search_configs[k].match_position =
        IF IsSome(start_pattern_str) /\ IsSome(end_pattern_str) THEN StartAndEnd
        ELSE IF IsSome(start_pattern_str) THEN StartOnly
        ELSE IF IsSome(end_pattern_str) THEN EndOnly
        ELSE match_position

\* --start given alone together with --position anywhere: the configuration
\* built is StartOnly
C16_Witness ==
  /\ ConfigsBuilt
  /\ IsSome(start_pattern_str) /\ ~IsSome(end_pattern_str)
  /\ match_position = Anywhere
  /\ search_configs[1].match_position = StartOnly

---------------------------------------------------------------------------
(* The result record, checked on Spec and FairSpec *)

MnemonicPlaceholder == << "Unable to generate mnemonic" >>

\* all six fields of a record are filled, the mnemonic field with the derived
\* phrase or with the placeholder
CompleteRecord(rec) ==
  /\ rec.pattern_desc # << >>
  /\ rec.position # << >>
  /\ rec.pubkey \in AddrPool
  /\ rec.actual_match \in { SubSeq(rec.pubkey, a, b) : a, b \in 1..Len(rec.pubkey) }
  /\ rec.private_key = << "bs58 of", rec.pubkey >>
  /\ rec.mnemonic_phrase \in { << "phrase of", rec.pubkey >>, MnemonicPlaceholder }

\* worker w holds a matching candidate whose mnemonic derivation failed
FailedDerivation(w) ==
  /\ IsSome(pending[w])
  /\ Unwrap(pending[w]).mnemonic_phrase = MnemonicPlaceholder

\* C17: a failed mnemonic derivation is recovered locally: the worker's record
\* is complete, with the placeholder in the mnemonic field, and the run still
\* ends with a report whose attempt count includes every candidate generated,
\* the failing worker's own tally too.
C17_MnemonicFailureRecovered ==
  /\ [](\A w \in Workers : IsSome(pending[w]) => CompleteRecord(Unwrap(pending[w])))
  /\ (\E w \in Workers : FailedDerivation(w))
       ~> ( /\ mpc = "done"
            /\ exit_code = Some(0)
            /\ IsSome(result)
            /\ total_attempts = Some(generated) )

\* a finished run whose reported record carries the placeholder
C17_Witness ==
  /\ mpc = "done"
  /\ IsSome(result)
  /\ Unwrap(result).mnemonic_phrase = MnemonicPlaceholder
  /\ CompleteRecord(Unwrap(result))
  /\ total_attempts = Some(generated)

\* the configurations, by index, that an address satisfies
Satisfied(address) ==
  { k \in 1..Len(search_configs) :
      IsSome(check_address_with_config(address, search_configs[k])) }

\* the record is the one of the first configuration its address satisfies
FromFirstSatisfied(rec) ==
  /\ Satisfied(rec.pubkey) # {}
  /\ \E k \in Satisfied(rec.pubkey) :
       /\ \A m \in Satisfied(rec.pubkey) : k <= m
       /\ rec.pattern_desc = pattern_desc(search_configs[k])
       /\ << rec.position, rec.actual_match >>
            = Unwrap(check_address_with_config(rec.pubkey, search_configs[k]))

\* C18: first matching config wins: every record a worker holds for writing,
\* the record in the result slot and the record the driver read come from a
\* candidate whose address satisfies some SearchConfig, and carry the pattern
\* description and the match report of the first such config in sequence
\* order.
C18_FirstMatchingConfigWins ==
  /\ \A w \in Workers : IsSome(pending[w]) => FromFirstSatisfied(Unwrap(pending[w]))
  /\ IsSome(found_keypair) => FromFirstSatisfied(Unwrap(found_keypair))
  /\ IsSome(result) => FromFirstSatisfied(Unwrap(result))

\* the slot holds a record of an address that satisfies more than one config
C18_Witness ==
  /\ IsSome(found_keypair)
  /\ Cardinality(Satisfied(Unwrap(found_keypair).pubkey)) >= 2
  /\ FromFirstSatisfied(Unwrap(found_keypair))

---------------------------------------------------------------------------
(* Batched counting, checked on Spec *)

\* the candidates the workers of S have generated and not yet flushed
RECURSIVE Unflushed(_)
Unflushed(S) ==
  IF S = {} THEN 0
  ELSE LET w == CHOOSE x \in S : TRUE
       IN  local_attempts[w] + Unflushed(S \ { w })

\* C20: batched counting never overcounts and has bounded lag: the shared
\* attempts counter never exceeds the number of candidates generated, no
\* worker's unflushed tally exceeds the flush threshold, the counter lags the
\* true count by at most NumWorkers x threshold, and every generated candidate
\* is counted exactly once, in the shared counter or in one worker's tally.
C20_BatchedCounting ==
  /\ attempts <= generated
  /\ \A w \in Workers : local_attempts[w] <= report_threshold
  /\ generated - attempts <= NumWorkers * report_threshold
  /\ attempts + Unflushed(Workers) = generated

\* a worker's tally has reached the threshold while the shared counter, already
\* advanced by a flush, lags the true count
C20_Witness ==
  /\ \E w \in Workers : local_attempts[w] = report_threshold
  /\ attempts > 0
  /\ attempts < generated

====
